---- MODULE Spec2Model ----
(***************************************************************************)
(* Event-extraction pipeline of app/services/llm_extractor.py: the bounded *)
(* retry loop around _call_llm_and_parse, the sanitizer clean_json_content,*)
(* the JSON decode of the model's reply and the per-record mapping of the  *)
(* decoded records to Event objects (app/models/response.py).              *)
(*                                                                         *)
(* Text is modelled as a sequence of tokens.  A token is one character     *)
(* class of the reply: a bracket, a comma, a fence marker, a newline, or   *)
(* an atom standing for a whole JSON literal that contains no bracket (a   *)
(* record object r1..r6, a number n, a key k:) or for a word of prose (w). *)
(***************************************************************************)
EXTENDS Integers, Sequences, FiniteSets, TLC

\* ------------------------------------------------------------------ bounds

\* Longest reply enumerated token by token (every token string up to here).
MaxContentLen == 3

\* Longest well-formed array of records enumerated.
MaxRecords == 3

\* ------------------------------------------------------------ JSON values

Fields == {"title", "start_time", "end_time", "description", "tag"}

\* A JSON value held by a field of a record; "absent" is a missing key.
Absent == [type |-> "absent", v |-> ""]
Null == [type |-> "null", v |-> ""]
Str(s) == [type |-> "str", v |-> s]
Num(s) == [type |-> "num", v |-> s]
Obj == [type |-> "obj", v |-> "k"]

\* A decoded array element: a mapping with its fields, or a non-mapping.
Dict(t, s, e, d, g) ==
    [kind |-> "dict", title |-> t, start_time |-> s, end_time |-> e,
     description |-> d, tag |-> g]
NonDict(k) ==
    [kind |-> k, title |-> Absent, start_time |-> Absent, end_time |-> Absent,
     description |-> Absent, tag |-> Absent]

\* A mapping that has none of the Event fields.
EmptyDict == Dict(Absent, Absent, Absent, Absent, Absent)

T0 == Str("2024-01-15T14:00:00+08:00")
T1 == Str("2024-01-15T15:00:00+08:00")

\* The record literals the modelled replies are built from.
RecordToks == {"r1", "r2", "r3", "r4", "r5", "r6"}
RecordOf(tok) ==
    CASE tok = "r1" -> Dict(Str("a"), T0, T1, Str("d"), Str("work"))
      [] tok = "r2" -> Dict(Str("b"), T0, T1, Absent, Str("travel"))
      [] tok = "r3" -> Dict(Str("c"), T0, T1, Null, Str(""))
      [] tok = "r4" -> Dict(Absent, T0, T1, Absent, Str("work"))
      [] tok = "r5" -> Dict(Str("e"), Num("5"), Null, Absent, Num("7"))
      [] tok = "r6" -> Dict(Str("f"), T0, T1, Obj, Str("work"))

\* ------------------------------------------------------------------ text

Whitespace == {" ", "\n"}

\* str.strip()
RECURSIVE lstrip(_)
lstrip(s) ==
    IF s # <<>> /\ Head(s) \in Whitespace THEN lstrip(Tail(s)) ELSE s

RECURSIVE rstrip(_)
rstrip(s) ==
    IF s # <<>> /\ s[Len(s)] \in Whitespace
    THEN rstrip(SubSeq(s, 1, Len(s) - 1)) ELSE s

strip(s) == rstrip(lstrip(s))

\* str.find / str.rfind of a one-character needle; 0 stands for Python's -1.
find(s, c) ==
    IF \E i \in 1..Len(s) : s[i] = c
    THEN CHOOSE i \in 1..Len(s) : s[i] = c /\ \A j \in 1..(i - 1) : s[j] # c
    ELSE 0

rfind(s, c) ==
    IF \E i \in 1..Len(s) : s[i] = c
    THEN CHOOSE i \in 1..Len(s) : s[i] = c /\ \A j \in (i + 1)..Len(s) : s[j] # c
    ELSE 0

\* Last index of the maximal whitespace run that starts at k (k-1: empty run).
RECURSIVE WsRunEnd(_, _)
WsRunEnd(s, k) ==
    IF k <= Len(s) /\ s[k] \in Whitespace THEN WsRunEnd(s, k + 1) ELSE k - 1

\* Last newline among s[k..e], 0 when there is none.
LastNewline(s, k, e) ==
    IF \E q \in k..e : s[q] = "\n"
    THEN CHOOSE q \in k..e : s[q] = "\n" /\ \A p \in (q + 1)..e : s[p] # "\n"
    ELSE 0

\* Line start under re.MULTILINE: start of text or just after a newline.
LineStart(s, i) == i = 1 \/ s[i - 1] = "\n"

\* Last index of the match of the leading-fence pattern (line start, fence,
\* optional json tag, whitespace run, newline) that starts at i, else 0.  The
\* greedy whitespace run is taken whole and given back down to its last
\* newline.
MatchLeadingFence(s, i) ==
    IF i <= Len(s) /\ LineStart(s, i) /\ s[i] = "FENCE"
    THEN LET k == IF i + 1 <= Len(s) /\ s[i + 1] = "json" THEN i + 2 ELSE i + 1
         IN LastNewline(s, k, WsRunEnd(s, k))
    ELSE 0

\* Last index of the match of the trailing-fence pattern (newline, fence,
\* whitespace run, line end) that starts at i, else 0.  A line end under
\* re.MULTILINE is the end of the text or the place just before a newline.
MatchTrailingFence(s, i) ==
    IF i + 1 <= Len(s) /\ s[i] = "\n" /\ s[i + 1] = "FENCE"
    THEN LET e == WsRunEnd(s, i + 2)
             q == LastNewline(s, i + 2, e)
         IN IF e = Len(s) THEN e
            ELSE IF q # 0 THEN q - 1
            ELSE 0
    ELSE 0

\* re.sub(pattern, "", s): left to right, non-overlapping.
RECURSIVE SubLeadingFence(_, _)
SubLeadingFence(s, i) ==
    IF i > Len(s) THEN <<>>
    ELSE LET m == MatchLeadingFence(s, i)
         IN IF m # 0 THEN SubLeadingFence(s, m + 1)
            ELSE <<s[i]>> \o SubLeadingFence(s, i + 1)

RECURSIVE SubTrailingFence(_, _)
SubTrailingFence(s, i) ==
    IF i > Len(s) THEN <<>>
    ELSE LET m == MatchTrailingFence(s, i)
         IN IF m # 0 THEN SubTrailingFence(s, m + 1)
            ELSE <<s[i]>> \o SubTrailingFence(s, i + 1)

\* The bracket slice of clean_json_content: first "[" to last "]".
BracketSlice(s) ==
    LET start_idx == find(s, "[")
        end_idx == rfind(s, "]")
    IN IF start_idx # 0 /\ end_idx # 0 /\ end_idx > start_idx
       THEN SubSeq(s, start_idx, end_idx)
       ELSE s

\* clean_json_content without the two substitutions and the bracket slice.
clean_json_content_strip_only(content) == strip(content)

clean_json_content(content) ==
    BracketSlice(strip(SubTrailingFence(SubLeadingFence(content, 1), 1)))

\* ------------------------------------------------------------ json.loads

SkipWs(s, i) == WsRunEnd(s, i) + 1

ParseFail == [ok |-> FALSE, val |-> NonDict("none"), items |-> <<>>, next |-> 0]

\* The JSON grammar over tokens: a record literal, a number, a string, an
\* object { "k": value, ... }, or an array of values.  items holds the
\* elements of an array (an element that is itself an array is kept as a
\* "list" value, an object written out member by member as a mapping with
\* none of the Event fields).
RECURSIVE ParseValue(_, _)
RECURSIVE ParseItems(_, _, _)
RECURSIVE ParseMembers(_, _)
ParseValue(s, i0) ==
    LET i == SkipWs(s, i0)
    IN IF i > Len(s) THEN ParseFail
       ELSE IF s[i] \in RecordToks
       THEN [ok |-> TRUE, val |-> RecordOf(s[i]), items |-> <<>>, next |-> i + 1]
       ELSE IF s[i] = "n"
       THEN [ok |-> TRUE, val |-> NonDict("num"), items |-> <<>>, next |-> i + 1]
       ELSE IF s[i] = "s"
       THEN [ok |-> TRUE, val |-> NonDict("str"), items |-> <<>>, next |-> i + 1]
       ELSE IF s[i] = "{"
       THEN LET j == SkipWs(s, i + 1)
            IN IF j <= Len(s) /\ s[j] = "}"
               THEN [ok |-> TRUE, val |-> EmptyDict, items |-> <<>>, next |-> j + 1]
               ELSE ParseMembers(s, i + 1)
       ELSE IF s[i] = "["
       THEN LET j == SkipWs(s, i + 1)
            IN IF j <= Len(s) /\ s[j] = "]"
               THEN [ok |-> TRUE, val |-> NonDict("list"), items |-> <<>>,
                     next |-> j + 1]
               ELSE ParseItems(s, i + 1, <<>>)
       ELSE ParseFail

ParseItems(s, i, acc) ==
    LET r == ParseValue(s, i)
        j == SkipWs(s, r.next)
    IN IF ~r.ok \/ j > Len(s) THEN ParseFail
       ELSE IF s[j] = ","
       THEN ParseItems(s, j + 1, Append(acc, r.val))
       ELSE IF s[j] = "]"
       THEN [ok |-> TRUE, val |-> NonDict("list"),
             items |-> Append(acc, r.val), next |-> j + 1]
       ELSE ParseFail

ParseMembers(s, i) ==
    LET k == SkipWs(s, i)
    IN IF k > Len(s) \/ s[k] # "k:" THEN ParseFail
       ELSE LET r == ParseValue(s, k + 1)
                j == SkipWs(s, r.next)
            IN IF ~r.ok \/ j > Len(s) THEN ParseFail
               ELSE IF s[j] = ","
               THEN ParseMembers(s, j + 1)
               ELSE IF s[j] = "}"
               THEN [ok |-> TRUE, val |-> EmptyDict, items |-> <<>>,
                     next |-> j + 1]
               ELSE ParseFail

\* json.loads: one value, surrounded by optional whitespace, and nothing else.
json_loads(s) ==
    LET r == ParseValue(s, 1)
    IN IF r.ok /\ SkipWs(s, r.next) > Len(s) THEN r ELSE ParseFail

\* ----------------------------------------------------------- the endpoint

\* The phrase extract_events_with_llm looks for in an error message to tell
\* a JSON parse failure (its Chinese wording: "cannot parse the JSON the LLM
\* returned").
JsonParseMarker == "cannot parse LLM JSON"

\* A reply of the chat-completions endpoint as the client sees it: the
\* transport result, the body, and the fields of choices[0].  body_text is
\* free text the body carries outside choices (an error description, say).
Envelope(net, body, choices, body_text, finish_reason, message, content) ==
    [net |-> net, body |-> body, choices |-> choices, body_text |-> body_text,
     finish_reason |-> finish_reason, message |-> message, content |-> content]

NoResponse == Envelope("none", "none", "missing", <<>>, "null", "missing", <<>>)

\* Free text a body may carry: nothing, some words, or the very phrase the
\* retry loop looks for.
BodyTexts == {<<>>, <<"w">>, <<JsonParseMarker>>}

Reply(finish_reason, content) ==
    Envelope("ok", "json", "present", <<>>, finish_reason, "text", content)

Alphabet ==
    {"[", "]", ",", "{", "k:", "}", "n", "w", "FENCE", "json", "\n", "r1"}

ShortContents == UNION {[1..n -> Alphabet] : n \in 0..MaxContentLen}

ElemToks == RecordToks \cup {"n"}

RECURSIVE Join(_)
Join(toks) ==
    IF Len(toks) <= 1 THEN toks
    ELSE <<Head(toks), ",">> \o Join(Tail(toks))

ArrayText(toks) == <<"[">> \o Join(toks) \o <<"]">>

ArraysUpTo(k) == {ArrayText(t) : t \in UNION {[1..n -> ElemToks] : n \in 0..k}}

Arrays == ArraysUpTo(MaxRecords)

\* A well-formed array as models emit it: bare, inside a fenced block, or (the
\* shorter ones) with prose around it or as the value of one or two members
\* of a wrapping object.
StructuredContents ==
    Arrays
    \cup {<<"FENCE", "json", " ", "\n">> \o a \o <<"\n", "FENCE", "\n">> :
            a \in Arrays}
    \cup {<<"w", " ">> \o a \o <<" ", "w">> : a \in ArraysUpTo(MaxRecords - 1)}
    \cup {<<"{", "k:">> \o a \o <<"}">> : a \in ArraysUpTo(MaxRecords - 1)}
    \cup {<<"{", "k:">> \o a \o <<",", "k:">> \o a \o <<"}">> :
            a \in ArraysUpTo(MaxRecords - 1)}

Contents == ShortContents \cup StructuredContents

\* What a reply cut off by max_tokens holds: a prefix of an array.
TruncatedContents == UNION {{SubSeq(a, 1, n) : n \in 1..Len(a)} : a \in Arrays}

Responses ==
    {Envelope("connect_error", "none", "missing", <<>>, "null", "missing", <<>>)}
    \cup {Envelope("http_error", "json", "missing", t, "null", "missing", <<>>) :
            t \in BodyTexts}
    \cup {Envelope("ok", "not_json", "missing", t, "null", "missing", <<>>) :
            t \in BodyTexts}
    \cup {Envelope("ok", "json", c, t, "null", "missing", <<>>) :
            c \in {"missing", "empty"}, t \in BodyTexts}
    \cup {Envelope("ok", "json", "present", <<>>, f, m, <<>>) :
            f \in {"stop", "length", "null"}, m \in {"missing", "null"}}
    \cup {Reply("stop", c) : c \in Contents}
    \cup {Reply("length", c) : c \in TruncatedContents}

\* ------------------------------------------------------- _call_llm_and_parse

ValueErrorClasses == {"ValueError", "JSONDecodeError"}

Error(cls, kind, msg) == [cls |-> cls, kind |-> kind, msg |-> msg, attempt |-> 0]
NoError == Error("none", "none", <<>>)

Raise(e) == [raised |-> TRUE, error |-> e, events_data |-> <<>>]
Return(data) == [raised |-> FALSE, error |-> NoError, events_data |-> data]

\* Lines 44-46: the credential check, before any request is sent.
MissingToken == Error("ValueError", "MissingCredential", <<"token not set">>)

\* Lines 87-100: sanitize, decode, require an array.
ParseContent(content) ==
    LET cleaned == clean_json_content(content)
        decoded == json_loads(cleaned)
    IN IF ~decoded.ok
       THEN Raise(Error("ValueError", "JsonDecode", <<JsonParseMarker>>))
       ELSE IF decoded.val.kind # "list"
       THEN Raise(Error("ValueError", "NotArray", <<"not an array">>))
       ELSE Return(decoded.items)

\* ProcessResponse without the finish_reason check of lines 76-81.
ProcessResponse_truncation_unchecked(r) ==
    IF r.net = "connect_error"
    THEN Raise(Error("ConnectError", "Transport", <<"connect failed">>))
    ELSE IF r.net = "http_error"
    THEN Raise(Error("HTTPStatusError", "HttpStatus", <<"status error">>))
    ELSE IF r.body = "not_json"
    THEN Raise(Error("JSONDecodeError", "EnvelopeDecode", <<"Expecting value">>))
    ELSE IF r.choices \in {"missing", "empty"}
    THEN Raise(Error("ValueError", "MissingChoices",
                     <<"missing choices">> \o r.body_text))
    ELSE IF r.message = "missing"
    THEN Raise(Error("KeyError", "MalformedChoice", <<"message">>))
    ELSE IF r.message = "null" \/ r.content = <<>>
    THEN Raise(Error("ValueError", "EmptyContent", <<"empty content">>))
    ELSE ParseContent(r.content)

\* Lines 66-100: what the call does with the endpoint's reply.
ProcessResponse(r) ==
    IF r.net = "connect_error"
    THEN Raise(Error("ConnectError", "Transport", <<"connect failed">>))
    ELSE IF r.net = "http_error"
    THEN Raise(Error("HTTPStatusError", "HttpStatus", <<"status error">>))
    ELSE IF r.body = "not_json"
    THEN Raise(Error("JSONDecodeError", "EnvelopeDecode", <<"Expecting value">>))
    ELSE IF r.choices \in {"missing", "empty"}
    THEN Raise(Error("ValueError", "MissingChoices",
                     <<"missing choices">> \o r.body_text))
    ELSE IF r.finish_reason = "length"
    THEN Raise(Error("ValueError", "Truncated", <<"truncated">>))
    ELSE IF r.message = "missing"
    THEN Raise(Error("KeyError", "MalformedChoice", <<"message">>))
    ELSE IF r.message = "null" \/ r.content = <<>>
    THEN Raise(Error("ValueError", "EmptyContent", <<"empty content">>))
    ELSE ParseContent(r.content)

\* ------------------------------------------------------- Event validation

\* The tags argument: None, or a list of strings.
NoTags == [given |-> FALSE, list |-> <<>>]
TagList(l) == [given |-> TRUE, list |-> l]

TagUniverse == {"", "work"}

TagLists ==
    {NoTags, TagList(<<>>)}
    \cup {TagList(<<t>>) : t \in TagUniverse}
    \cup {TagList(p) : p \in {q \in TagUniverse \X TagUniverse : q[1] # q[2]}}

\* Python truthiness of a JSON value.
Truthy(x) ==
    \/ x.type = "str" /\ x.v # ""
    \/ x.type = "num" /\ x.v # "0"
    \/ x.type = "obj"

\* x in tags: list membership by equality; only a string equals a string.
InTags(x, tgs) == x.type = "str" /\ \E i \in 1..Len(tgs.list) : tgs.list[i] = x.v

\* tags and len(tags) > 0
HasTags(tgs) == tgs.given /\ Len(tgs.list) > 0

\* dict.get("tag"): the value, None when the key is missing.
GetTag(ed) == IF ed.tag.type = "absent" THEN Null ELSE ed.tag

\* ResolveTag without the membership test of line 200.
ResolveTag_unlisted_kept(ed, tgs) ==
    IF HasTags(tgs)
    THEN IF Truthy(GetTag(ed)) THEN ed ELSE [ed EXCEPT !.tag = Null]
    ELSE [ed EXCEPT !.tag = Null]

\* Lines 197-208: the record after its tag is checked against the list.
ResolveTag(ed, tgs) ==
    IF HasTags(tgs)
    THEN IF Truthy(GetTag(ed)) /\ InTags(GetTag(ed), tgs)
         THEN ed
         ELSE [ed EXCEPT !.tag = Null]
    ELSE [ed EXCEPT !.tag = Null]

\* A required str field of Event: present and a string.
RequiredStr(x) == x.type = "str"

\* An Optional[str] field of Event: missing, None or a string.
OptionalStr(x) == x.type \in {"absent", "null", "str"}

\* Event(**event_data) validates.
EventValid(ed) ==
    /\ RequiredStr(ed.title)
    /\ RequiredStr(ed.start_time)
    /\ RequiredStr(ed.end_time)
    /\ OptionalStr(ed.description)
    /\ OptionalStr(ed.tag)

\* The Event built; an Optional field left out defaults to None.
MakeEvent(ed) ==
    [title |-> ed.title, start_time |-> ed.start_time, end_time |-> ed.end_time,
     description |-> IF ed.description.type = "absent" THEN Null ELSE ed.description,
     tag |-> IF ed.tag.type = "absent" THEN Null ELSE ed.tag]

\* Lines 194-210, one iteration: event_data.get fails on a non-mapping and
\* Event(...) fails on a bad field.
RecordOutcome(ed, tgs) ==
    IF ed.kind # "dict" THEN "AttributeError"
    ELSE IF ~EventValid(ResolveTag(ed, tgs)) THEN "ValidationError"
    ELSE "ok"

\* Caught with a handler for the validation error alone.
Caught_validation_only(exc) == exc = "ValidationError"

\* Line 212, except Exception: the exceptions the loop's handler catches.
Caught(exc) == exc \in {"AttributeError", "ValidationError", "TypeError", "KeyError"}

Mapped(evs) == [raised |-> FALSE, error |-> NoError, events |-> evs]
Escaped(exc) ==
    [raised |-> TRUE, error |-> Error(exc, "RecordError", <<"record">>),
     events |-> <<>>]

\* MapRecords with each event put at the front of the list.
RECURSIVE MapRecords_prepend(_, _, _)
MapRecords_prepend(data, tgs, acc) ==
    IF data = <<>> THEN Mapped(acc)
    ELSE LET o == RecordOutcome(Head(data), tgs)
         IN IF o = "ok"
            THEN MapRecords_prepend(Tail(data), tgs,
                     <<MakeEvent(ResolveTag(Head(data), tgs))>> \o acc)
            ELSE IF Caught(o) THEN MapRecords_prepend(Tail(data), tgs, acc)
            ELSE Escaped(o)

\* Lines 193-217: the loop; a record whose exception is caught is skipped,
\* the others' events are appended in order.
RECURSIVE MapRecords(_, _, _)
MapRecords(data, tgs, acc) ==
    IF data = <<>> THEN Mapped(acc)
    ELSE LET o == RecordOutcome(Head(data), tgs)
         IN IF o = "ok"
            THEN MapRecords(Tail(data), tgs,
                            Append(acc, MakeEvent(ResolveTag(Head(data), tgs))))
            ELSE IF Caught(o) THEN MapRecords(Tail(data), tgs, acc)
            ELSE Escaped(o)

\* The loop's side effect on events_data: a mapping's tag is rewritten in
\* place, a non-mapping is left as it is.
MutatedData(data, tgs) ==
    [i \in 1..Len(data) |->
        IF data[i].kind = "dict" THEN ResolveTag(data[i], tgs) ELSE data[i]]

\* ------------------------------------------------------------------ state

VARIABLES
    pc,           \* where the extraction is
    tags,         \* the tags argument
    token,        \* whether AI_BUILDER_TOKEN is set
    attempt,      \* the loop variable of the retry loop
    requests,     \* model requests sent so far
    response,     \* the reply received last
    last_error,   \* the local last_error
    events_data,  \* the local events_data
    events,       \* the list returned
    raised,       \* the error raised to the caller
    outcomes,     \* per attempt, how _call_llm_and_parse ended
    args,         \* transcript, current_time_iso and timezone_str, until used
    prompts,      \* the rendered system and user prompt
    cached_prompts,  \* the module global _cached_prompts
    prompts_file, \* the template document on disk
    reqs,         \* several requests in one process: where each one is
    fn_pc,        \* a function applied on its own: "ready", then "done"
    fn_arg,       \* its arguments
    fn_out        \* its result

\* The variables of the functions applied on their own.
fnVars == <<fn_pc, fn_arg, fn_out>>

\* No function is being applied on its own.
FnIdle == fn_pc = "idle" /\ fn_arg = <<>> /\ fn_out = <<>>

\* The template cache, the document, and the requests that share them.
cacheVars == <<cached_prompts, prompts_file, reqs>>

\* What the retry loop and the mapping leave alone.
prepVars == <<args, prompts, cacheVars>>

vars ==
    <<pc, tags, token, attempt, requests, response, last_error, events_data,
      events, raised, outcomes, prepVars, fnVars>>

\* ------------------------------------------- functions applied on their own

\* _cached_prompts is None.
NoPrompts ==
    [loaded |-> FALSE, system |-> <<>>, user |-> <<>>,
     tags_section_template |-> <<>>]

\* The template document does not exist.
NoFile == [exists |-> FALSE, content |-> <<>>]

\* The arguments have been used.
NoArgs == <<>>

\* No rendered prompts yet.
NoRendered == <<>>

\* No request is followed through the retry loop.
RequestIdle ==
    /\ pc = "idle"
    /\ args = NoArgs
    /\ prompts = NoRendered
    /\ tags = NoTags
    /\ token = FALSE
    /\ attempt = 0
    /\ requests = 0
    /\ response = NoResponse
    /\ last_error = NoError
    /\ events_data = <<>>
    /\ events = <<>>
    /\ raised = NoError
    /\ outcomes = <<>>

\* The extraction itself is not running.
ExtractionIdle ==
    /\ RequestIdle
    /\ cached_prompts = NoPrompts
    /\ prompts_file = NoFile
    /\ reqs = <<>>

requestVars ==
    <<pc, tags, token, attempt, requests, response, last_error, events_data,
      events, raised, outcomes, args, prompts>>

ExtractionVars ==
    <<pc, tags, token, attempt, requests, response, last_error, events_data,
      events, raised, outcomes, prepVars>>

\* ---------------------------------------------- the sanitizer on a fenced array

MaxArrayLen == 5

ArrayAlphabet == {"[", "]", ",", "r1", "n", "s", " ", "\n"}

\* Every text json.loads reads as an array, inner and outer white space
\* and nested arrays included.
IsArrayText(a) ==
    LET r == json_loads(a) IN r.ok /\ r.val = NonDict("list")

ArrayTexts ==
    {a \in UNION {[1..n -> ArrayAlphabet] : n \in 2..MaxArrayLen} : IsArrayText(a)}

\* The opening line of a fenced block, bare or with the language name, and
\* its closing line, with or without a final line break.
LeadingFences == {<<"FENCE", "\n">>, <<"FENCE", "json", "\n">>}
TrailingFences == {<<"\n", "FENCE">>, <<"\n", "FENCE", "\n">>}

InitClean ==
    /\ ExtractionIdle
    /\ fn_pc = "ready"
    /\ fn_arg \in [a : ArrayTexts, lead : LeadingFences, trail : TrailingFences]
    /\ fn_out = <<>>

\* clean_json_content on the array alone and on the array inside the block.
ApplyClean ==
    /\ fn_pc = "ready"
    /\ fn_pc' = "done"
    /\ fn_out' = [plain  |-> clean_json_content(fn_arg.a),
                  fenced |-> clean_json_content(
                                 fn_arg.lead \o fn_arg.a \o fn_arg.trail)]
    /\ UNCHANGED <<fn_arg, ExtractionVars>>

SpecClean == InitClean /\ [][ApplyClean]_vars

\* C11: an array inside a fenced block (opening line bare or with the
\* language name, closing line a bare fence) is sanitized to the same text
\* as the array alone, and so is parsed to the same sequence of records.
C11_FencedArraySanitizedAlike ==
    fn_pc = "done" =>
        /\ fn_out.fenced = fn_out.plain
        /\ json_loads(fn_out.fenced) = json_loads(fn_out.plain)
        /\ json_loads(fn_out.fenced).ok

C11_Witness ==
    /\ fn_pc = "done"
    /\ fn_arg.lead = <<"FENCE", "json", "\n">>
    /\ fn_arg.a = <<"[", "r1", ",", "n", "]">>
    /\ fn_out.fenced = fn_arg.a

\* ------------------------------------------------------------ time zones

\* Text is a sequence of characters here: a sign, decimal digits, a colon.
\* A zone name and the body of a timestamp are one token each.
DigitChars == <<"0", "1", "2", "3", "4", "5", "6", "7", "8", "9">>

Digit(n) == DigitChars[n + 1]

IsDigit(c) == \E n \in 0..9 : Digit(n) = c

DigitVal(c) == CHOOSE n \in 0..9 : Digit(n) = c

\* str(n) for n >= 0.
RECURSIVE Decimal(_)
Decimal(n) ==
    IF n < 10 THEN <<Digit(n)>> ELSE Append(Decimal(n \div 10), Digit(n % 10))

\* The format n:02d for n >= 0: at least two digits, zero-padded on the left.
TwoDigits(n) == IF n < 10 THEN <<"0", Digit(n)>> ELSE Decimal(n)

\* int(text) accepts a non-empty run of digits (the only numerals here).
IntOk(text) == Len(text) > 0 /\ \A i \in 1..Len(text) : IsDigit(text[i])

RECURSIVE Int_(_)
Int_(text) ==
    IF Len(text) = 0 THEN 0
    ELSE 10 * Int_(SubSeq(text, 1, Len(text) - 1)) + DigitVal(text[Len(text)])

abs(n) == IF n < 0 THEN -n ELSE n

\* str.split(sep): the pieces between the separators.
RECURSIVE split(_, _)
split(text, sep) ==
    LET i == find(text, sep)
    IN IF i = 0 THEN <<text>>
       ELSE <<SubSeq(text, 1, i - 1)>> \o split(SubSeq(text, i + 1, Len(text)), sep)

\* The UTC offsets a timestamp can carry: whole minutes, sign and two-digit
\* hours below 24 and minutes below 60.
OffsetSuffix(sign, hh, mm) == <<sign>> \o TwoDigits(hh) \o <<":">> \o TwoDigits(mm)

OffsetSuffixes ==
    {OffsetSuffix(sg, hh, mm) : sg \in {"+", "-"}, hh \in 0..23, mm \in 0..59}

\* A timestamp: its date-and-time body ("T", or "X" for one that is not
\* ISO 8601), then nothing, Z, or an offset.
Timestamp(bdy, suffix) == <<bdy>> \o suffix

WellFormedTimestamps ==
    {Timestamp("T", sfx) : sfx \in {<<>>, <<"Z">>} \cup OffsetSuffixes}

\* parser.isoparse(iso_string): whether it parses, whether the result is
\* naive, and the UTC offset of its tzinfo in seconds.
isoparse(iso_string) ==
    LET sfx == Tail(iso_string)
        bad == [ok |-> FALSE, naive |-> FALSE, total_seconds |-> 0]
    IN IF Head(iso_string) # "T" THEN bad
       ELSE IF sfx = <<>>
       THEN [ok |-> TRUE, naive |-> TRUE, total_seconds |-> 0]
       ELSE IF sfx = <<"Z">>
       THEN [ok |-> TRUE, naive |-> FALSE, total_seconds |-> 0]
       ELSE IF /\ Len(sfx) = 6 /\ sfx[1] \in {"+", "-"} /\ sfx[4] = ":"
               /\ IntOk(SubSeq(sfx, 2, 3)) /\ IntOk(SubSeq(sfx, 5, 6))
               /\ Int_(SubSeq(sfx, 2, 3)) <= 23 /\ Int_(SubSeq(sfx, 5, 6)) <= 59
       THEN [ok |-> TRUE, naive |-> FALSE,
             total_seconds |->
                 (IF sfx[1] = "-" THEN -1 ELSE 1)
                 * (Int_(SubSeq(sfx, 2, 3)) * 3600 + Int_(SubSeq(sfx, 5, 6)) * 60)]
       ELSE bad

\* The label built from hours and minutes.  Python's // rounds toward minus
\* infinity and % takes the sign of the divisor, as \div and % do here.
OffsetLabel(total_seconds) ==
    LET hours == total_seconds \div 3600
        minutes == (total_seconds % 3600) \div 60
        sign == IF hours >= 0 THEN "+" ELSE "-"
        abs_hours == abs(hours)
    IN <<sign>> \o TwoDigits(abs_hours) \o <<":">> \o TwoDigits(minutes)

UTCLabel == <<"UTC">>
ZeroOffsetLabel == <<"+", "0", "0", ":", "0", "0">>

\* extract_timezone_from_iso of a timestamp isoparse accepts.
extract_timezone_from_iso(iso_string) ==
    LET dt == isoparse(iso_string)
    IN IF ~dt.naive
       THEN IF dt.total_seconds = 0 THEN UTCLabel
            ELSE OffsetLabel(dt.total_seconds)
       ELSE ZeroOffsetLabel

\* The zone names pytz knows, with their offsets in minutes (zones without
\* daylight saving time).
ZoneNames == {<<"UTC">>, <<"Asia/Shanghai">>}

ZoneOffset(name) == IF name = <<"UTC">> THEN 0 ELSE 480

TzFail == [ok |-> FALSE, minutes |-> 0]

\* parse_timezone: the zone, by its UTC offset in minutes, or a ValueError.
\* pytz.FixedOffset refuses a whole day or more.
parse_timezone(timezone_str) ==
    IF timezone_str \in ZoneNames
    THEN [ok |-> TRUE, minutes |-> ZoneOffset(timezone_str)]
    ELSE IF Len(timezone_str) > 0 /\ timezone_str[1] \in {"+", "-"}
    THEN LET sign == IF timezone_str[1] = "-" THEN -1 ELSE 1
             parts == split(Tail(timezone_str), ":")
         IN IF ~IntOk(parts[1]) \/ (Len(parts) > 1 /\ ~IntOk(parts[2]))
            THEN TzFail
            ELSE LET hours == Int_(parts[1])
                     minutes == IF Len(parts) > 1 THEN Int_(parts[2]) ELSE 0
                     offset_seconds == sign * (hours * 3600 + minutes * 60)
                 IN IF abs(offset_seconds \div 60) >= 1440 THEN TzFail
                    ELSE [ok |-> TRUE, minutes |-> offset_seconds \div 60]
    ELSE TzFail

\* An optional timezone argument.
NoTimezone == [given |-> FALSE, text |-> <<>>]
Timezone(text) == [given |-> TRUE, text |-> text]

\* Lines 126-130 without the rewrite of the zero-offset label.
TimezoneLabel_zero_offset_kept(current_time_iso, timezone_str) ==
    IF timezone_str.given THEN timezone_str.text
    ELSE extract_timezone_from_iso(current_time_iso)

\* Lines 126-130 of extract_events_with_llm: the label bound to the prompt.
TimezoneLabel(current_time_iso, timezone_str) ==
    IF timezone_str.given THEN timezone_str.text
    ELSE LET extracted == extract_timezone_from_iso(current_time_iso)
         IN IF extracted = ZeroOffsetLabel THEN UTCLabel ELSE extracted

\* get_current_time_in_timezone: the instant of the timestamp (as its UTC
\* offset in minutes; a naive one is taken as UTC) moved to the target zone.
get_current_time_in_timezone(current_time_iso, timezone_str) ==
    LET dt == isoparse(current_time_iso)
        label == TimezoneLabel(current_time_iso, timezone_str)
        target_tz == parse_timezone(label)
    IN [ok |-> dt.ok /\ target_tz.ok,
        from_minutes |-> dt.total_seconds \div 60,
        minutes |-> target_tz.minutes]

\* The ValueError of parser.isoparse and the one of parse_timezone.
MalformedTimestamp == Error("ValueError", "MalformedTimestamp", <<"not ISO 8601">>)
UnknownTimezone == Error("ValueError", "UnknownTimezone", <<"cannot parse timezone">>)

\* Lines 125-133: the label and the current time of a request.
ResolveTime(current_time_iso, timezone_str) ==
    IF ~isoparse(current_time_iso).ok
    THEN [ok |-> FALSE, error |-> MalformedTimestamp]
    ELSE LET label == TimezoneLabel(current_time_iso, timezone_str)
             current_dt == get_current_time_in_timezone(current_time_iso, Timezone(label))
         IN IF ~current_dt.ok THEN [ok |-> FALSE, error |-> UnknownTimezone]
            ELSE [ok |-> TRUE, timezone |-> label, current_dt |-> current_dt]

InitTz ==
    /\ ExtractionIdle
    /\ fn_pc = "ready"
    /\ fn_arg \in [current_time_iso : WellFormedTimestamps, timezone_str : {NoTimezone}]
    /\ fn_out = <<>>

ApplyResolveTime ==
    /\ fn_pc = "ready"
    /\ fn_pc' = "done"
    /\ fn_out' = ResolveTime(fn_arg.current_time_iso, fn_arg.timezone_str)
    /\ UNCHANGED <<fn_arg, ExtractionVars>>

SpecTz == InitTz /\ [][ApplyResolveTime]_vars

\* C12: with no timezone supplied, a timestamp at zero offset (Z, +00:00,
\* -00:00 or no offset at all) gets the label UTC, never +00:00.
C12_ZeroOffsetLabelledUTC ==
    (fn_pc = "done" /\ isoparse(fn_arg.current_time_iso).total_seconds = 0) =>
        fn_out.ok /\ fn_out.timezone = UTCLabel

C12_Witness ==
    /\ fn_pc = "done"
    /\ fn_arg.current_time_iso = <<"T">>
    /\ fn_out.timezone = UTCLabel

\* C14: with no timezone supplied, the label derived from the offset of the
\* timestamp denotes that offset: it parses, and to a zone whose UTC offset
\* is the one the timestamp carries.
C14_LabelDenotesEmbeddedOffset ==
    fn_pc = "done" =>
        /\ fn_out.ok
        /\ parse_timezone(fn_out.timezone).ok
        /\ parse_timezone(fn_out.timezone).minutes * 60
               = isoparse(fn_arg.current_time_iso).total_seconds

\* ------------------------------------------------- the template document

MaxDocLines == 4

\* The three section headers, each one token of the document.
SystemHeader == "## System Prompt"
UserHeader == "## User Prompt"
TagsHeader == "## Tags Section Template"
SectionHeaders == {SystemHeader, UserHeader, TagsHeader}

\* Tokens that begin with two hash signs: the section headers and "###",
\* the start of any other line of that kind (a sub-heading, say).
HashTokens == SectionHeaders \cup {"###"}

\* content[a:b] with 1-based a and exclusive b: empty when b <= a.
Slice(text, a, b) == IF b <= a THEN <<>> ELSE SubSeq(text, a, b - 1)

\* "\n".join(lines)
RECURSIVE JoinLines(_)
JoinLines(lines) ==
    IF Len(lines) = 0 THEN <<>>
    ELSE IF Len(lines) = 1 THEN lines[1]
    ELSE lines[1] \o <<"\n">> \o JoinLines(Tail(lines))

\* line.startswith("##")
StartsWithHashes(line) == Len(line) > 0 /\ line[1] \in HashTokens

\* Lines 46-49 and their two repetitions: strip, split into lines, drop the
\* lines that start with two hash signs, join, strip.
SectionBody(section_content) ==
    LET lines == split(strip(section_content), "\n")
        kept == SelectSeq(lines, LAMBDA line : ~StartsWithHashes(line))
    IN strip(JoinLines(kept))

\* Lines 37-70 of load_prompts: the three sections of the document, or the
\* format error when a required header is not found.
ParsePrompts(content) ==
    LET system_start == find(content, SystemHeader)
        user_start == find(content, UserHeader)
        tags_template_start == find(content, TagsHeader)
        to_end == Len(content) + 1
    IN IF system_start = 0 \/ user_start = 0 THEN NoPrompts
       ELSE [loaded |-> TRUE,
             system |-> SectionBody(Slice(content, system_start, user_start)),
             user |->
                 IF tags_template_start # 0
                 THEN SectionBody(Slice(content, user_start, tags_template_start))
                 ELSE SectionBody(Slice(content, user_start, to_end)),
             tags_section_template |->
                 IF tags_template_start # 0
                 THEN SectionBody(Slice(content, tags_template_start, to_end))
                 ELSE <<>>]

\* The lines a document is made of: a header alone on its line, plain text,
\* a placeholder, a line starting with hash signs, an empty line.
DocLines ==
    {<<SystemHeader>>, <<UserHeader>>, <<TagsHeader>>, <<"a">>, <<"b", " ">>,
     <<"{transcript}">>, <<"###", "a">>, <<>>}

Occurrences(text, tok) == Cardinality({i \in 1..Len(text) : text[i] = tok})

\* Documents in which no header is written twice.
Documents ==
    {JoinLines(ls) : ls \in
        {d \in UNION {[1..n -> DocLines] : n \in 2..MaxDocLines} :
            \A h \in SectionHeaders :
                Cardinality({i \in DOMAIN d : d[i] = <<h>>}) <= 1}}

InitTemplate ==
    /\ ExtractionIdle
    /\ fn_pc = "ready"
    /\ fn_arg \in Documents
    /\ fn_out = <<>>

ApplyParsePrompts ==
    /\ fn_pc = "ready"
    /\ fn_pc' = "done"
    /\ fn_out' = ParsePrompts(fn_arg)
    /\ UNCHANGED <<fn_arg, ExtractionVars>>

SpecTemplate == InitTemplate /\ [][ApplyParsePrompts]_vars

\* The body of the section under header h as the document states it: from
\* the header to the next section header or the end, without the header
\* line, every other line kept.
SectionOf(content, h) ==
    LET start == find(content, h)
        nexts == {i \in (start + 1)..Len(content) : content[i] \in SectionHeaders}
        stop == IF nexts = {} THEN Len(content) + 1
                ELSE CHOOSE i \in nexts : \A j \in nexts : i <= j
        lines == split(Slice(content, start, stop), "\n")
    IN IF start = 0 THEN <<>> ELSE strip(JoinLines(Tail(lines)))

\* C17: for a document with the System Prompt and the User Prompt header,
\* each section body is the text between its header and the next section
\* header (the last one runs to the end) with only the header line removed,
\* in whatever order the headers come.
C17_SectionsExtracted ==
    (/\ fn_pc = "done"
     /\ find(fn_arg, SystemHeader) # 0
     /\ find(fn_arg, UserHeader) # 0) =>
        /\ fn_out.loaded
        /\ fn_out.system = SectionOf(fn_arg, SystemHeader)
        /\ fn_out.user = SectionOf(fn_arg, UserHeader)
        /\ fn_out.tags_section_template = SectionOf(fn_arg, TagsHeader)

\* The same for documents whose headers come in the order System, User,
\* Tags and whose body lines do not start with hash signs.
C17_OrderedPlainSectionsExtracted ==
    (/\ fn_pc = "done"
     /\ find(fn_arg, SystemHeader) # 0
     /\ find(fn_arg, UserHeader) # 0
     /\ find(fn_arg, SystemHeader) < find(fn_arg, UserHeader)
     /\ find(fn_arg, TagsHeader) # 0 => find(fn_arg, UserHeader) < find(fn_arg, TagsHeader)
     /\ Occurrences(fn_arg, "###") = 0) =>
        /\ fn_out.loaded
        /\ fn_out.system = SectionOf(fn_arg, SystemHeader)
        /\ fn_out.user = SectionOf(fn_arg, UserHeader)
        /\ fn_out.tags_section_template = SectionOf(fn_arg, TagsHeader)

\* --------------------------------------------------------- the rendering

MaxTemplateLen == 2
MaxTranscriptLen == 2

\* The token "{key}" of each variable.
Placeholder ==
    [current_time_str  |-> "{current_time_str}",
     current_time_iso  |-> "{current_time_iso}",
     current_date      |-> "{current_date}",
     past_30min_str    |-> "{past_30min_str}",
     transcript        |-> "{transcript}",
     timezone          |-> "{timezone}",
     tags              |-> "{tags}",
     tags_list         |-> "{tags_list}",
     tags_section      |-> "{tags_section}",
     tags_user_section |-> "{tags_user_section}",
     tag_field_section |-> "{tag_field_section}"]

\* One entry of the variables dict; the dict is the sequence of its entries
\* in insertion order, the order dict.items() yields.
Var(key, value) == [key |-> key, value |-> value]

\* str.replace(old, new) with a one-token old.
RECURSIVE Replace(_, _, _)
Replace(text, old, new) ==
    IF Len(text) = 0 THEN <<>>
    ELSE (IF Head(text) = old THEN new ELSE <<Head(text)>>)
         \o Replace(Tail(text), old, new)

\* replace_prompt_variables: one str.replace per variable, each on the
\* result of the one before.
RECURSIVE replace_prompt_variables(_, _)
replace_prompt_variables(prompt_template, variables) ==
    IF Len(variables) = 0 THEN prompt_template
    ELSE replace_prompt_variables(
             Replace(prompt_template, Placeholder[Head(variables).key],
                     Head(variables).value),
             Tail(variables))

\* The text of a tag (the empty tag has no characters).
TagText(tag) == IF tag = "" THEN <<>> ELSE <<tag>>

\* ", ".join of the tags, bare or each between double quotes.
RECURSIVE JoinTags(_, _)
JoinTags(list, quoted) ==
    LET one == IF quoted THEN <<"dq">> \o TagText(Head(list)) \o <<"dq">>
               ELSE TagText(Head(list))
    IN IF Len(list) = 0 THEN <<>>
       ELSE IF Len(list) = 1 THEN one
       ELSE one \o <<", ">> \o JoinTags(Tail(list), quoted)

\* Lines 136-160: the variables of a request.  The four renderings of the
\* current time are digits and punctuation, one token each here.
Variables(transcript, timezone_str, tgs, prompt_templates) ==
    LET base == <<Var("current_time_str", <<"time_str">>),
                  Var("current_time_iso", <<"time_iso">>),
                  Var("current_date", <<"date_str">>),
                  Var("past_30min_str", <<"past_iso">>),
                  Var("transcript", transcript),
                  Var("timezone", timezone_str)>>
        with_tags == base \o <<Var("tags", JoinTags(tgs.list, FALSE)),
                               Var("tags_list", JoinTags(tgs.list, TRUE))>>
    IN IF HasTags(tgs)
       THEN with_tags \o
            <<Var("tags_section",
                  replace_prompt_variables(
                      prompt_templates.tags_section_template, with_tags)),
              Var("tags_user_section",
                  <<"available tags: ">> \o JoinTags(tgs.list, FALSE)),
              Var("tag_field_section", <<" and tag">>)>>
       ELSE base \o <<Var("tags_section", <<>>),
                      Var("tags_user_section", <<>>),
                      Var("tag_field_section", <<>>)>>

\* get_prompts_with_variables on the loaded templates.
get_prompts_with_variables(prompt_templates, variables) ==
    [system |-> replace_prompt_variables(prompt_templates.system, variables),
     user   |-> replace_prompt_variables(prompt_templates.user, variables)]

TemplateTokens ==
    {"a", "{unknown}", "{current_date}", "{transcript}", "{timezone}", "{tags}",
     "{tags_list}", "{tags_section}", "{tags_user_section}",
     "{tag_field_section}"}

Templates == UNION {[1..n -> TemplateTokens] : n \in 0..MaxTemplateLen}

\* Loaded templates: any user template, a few system and tag-section ones.
PromptTemplates ==
    [loaded : {TRUE},
     system : {<<"a">>, <<"{tags_section}">>, <<"{tags}", "{timezone}">>},
     user : Templates,
     tags_section_template : {<<>>, <<"tags: ", "{tags_list}">>}]

\* Transcripts: plain words and text that looks like a placeholder.
Transcripts ==
    UNION {[1..n -> {"hi", "{timezone}", "{tags_section}", "{current_date}"}] :
               n \in 0..MaxTranscriptLen}

InitRender ==
    /\ ExtractionIdle
    /\ fn_pc = "ready"
    /\ fn_arg \in [prompt_templates : PromptTemplates, transcript : Transcripts,
                   timezone_str : {UTCLabel}, tgs : TagLists]
    /\ fn_out = <<>>

ApplyRender ==
    /\ fn_pc = "ready"
    /\ fn_pc' = "done"
    /\ fn_out' = get_prompts_with_variables(
                     fn_arg.prompt_templates,
                     Variables(fn_arg.transcript, fn_arg.timezone_str, fn_arg.tgs,
                               fn_arg.prompt_templates))
    /\ UNCHANGED <<fn_arg, ExtractionVars>>

SpecRender == InitRender /\ [][ApplyRender]_vars

\* The placeholders of the variables that derive from the tags.
TagPlaceholders ==
    {Placeholder.tags, Placeholder.tags_list, Placeholder.tags_section,
     Placeholder.tags_user_section, Placeholder.tag_field_section}

Without(text, toks) == SelectSeq(text, LAMBDA tok : tok \notin toks)

FnVariables ==
    Variables(fn_arg.transcript, fn_arg.timezone_str, fn_arg.tgs,
              fn_arg.prompt_templates)

\* C13: without allowed tags, every tag-derived placeholder of the system
\* and of the user template is rendered as the empty string: the prompts
\* are those of the templates with these placeholders taken out.
C13_TagPlaceholdersRenderEmpty ==
    (fn_pc = "done" /\ ~HasTags(fn_arg.tgs)) =>
        /\ fn_out.system =
               replace_prompt_variables(
                   Without(fn_arg.prompt_templates.system, TagPlaceholders),
                   FnVariables)
        /\ fn_out.user =
               replace_prompt_variables(
                   Without(fn_arg.prompt_templates.user, TagPlaceholders),
                   FnVariables)

\* Every placeholder written in the template replaced by the value of its
\* variable, in one pass: no value is looked at again.
RECURSIVE SubstituteOnce(_, _)
SubstituteOnce(prompt_template, variables) ==
    LET tok == Head(prompt_template)
        hits == {i \in 1..Len(variables) : Placeholder[variables[i].key] = tok}
    IN IF Len(prompt_template) = 0 THEN <<>>
       ELSE (IF hits = {} THEN <<tok>>
             ELSE variables[CHOOSE i \in hits : TRUE].value)
            \o SubstituteOnce(Tail(prompt_template), variables)

\* C18: only the placeholders written in the template are substituted; a
\* substituted value (the transcript above all) is never expanded, so the
\* prompts are the one-pass substitution of the templates, whatever the
\* order of the variables.
C18_ValuesNeverExpanded ==
    fn_pc = "done" =>
        /\ fn_out.system = SubstituteOnce(fn_arg.prompt_templates.system, FnVariables)
        /\ fn_out.user = SubstituteOnce(fn_arg.prompt_templates.user, FnVariables)


\* ------------------------------------------------- the steps before the loop

\* Lines 28-29 and 41-42 of load_prompts.
TemplateMissing ==
    Error("FileNotFoundError", "TemplateMissing", <<"no template file">>)
TemplateFormat ==
    Error("ValueError", "TemplateFormat", <<"template format error">>)

\* load_prompts that reads the document every time.
load_prompts_uncached(cache, file) ==
    IF ~file.exists
    THEN [ok |-> FALSE, error |-> TemplateMissing, cache |-> cache]
    ELSE LET parsed == ParsePrompts(file.content)
         IN IF ~parsed.loaded
            THEN [ok |-> FALSE, error |-> TemplateFormat, cache |-> cache]
            ELSE [ok |-> TRUE, error |-> NoError, cache |-> parsed]

\* load_prompts: the cached templates when there are any; else the document
\* is read and parsed, and cached when that succeeds.  The value returned is
\* the cache itself.
load_prompts(cache, file) ==
    IF cache.loaded THEN [ok |-> TRUE, error |-> NoError, cache |-> cache]
    ELSE IF ~file.exists
    THEN [ok |-> FALSE, error |-> TemplateMissing, cache |-> cache]
    ELSE LET parsed == ParsePrompts(file.content)
         IN IF ~parsed.loaded
            THEN [ok |-> FALSE, error |-> TemplateFormat, cache |-> cache]
            ELSE [ok |-> TRUE, error |-> NoError, cache |-> parsed]

PrepareFailed(e, cache) ==
    [ok |-> FALSE, error |-> e, cache |-> cache, templates |-> NoPrompts,
     prompts |-> NoRendered]

\* Lines 125-163 with the failure of the time resolution passed over.
PrepareRequest_time_unchecked(a, tgs, cache, file) ==
    LET loaded == load_prompts(cache, file)
    IN IF ~loaded.ok THEN PrepareFailed(loaded.error, loaded.cache)
       ELSE [ok |-> TRUE, error |-> NoError, cache |-> loaded.cache,
             templates |-> loaded.cache,
             prompts |-> get_prompts_with_variables(
                             loaded.cache,
                             Variables(a.transcript, UTCLabel, tgs, loaded.cache))]

\* Lines 125-163 of extract_events_with_llm, which hold no await: the time
\* is resolved, the templates are loaded (line 146), the variables built and
\* the prompts rendered from the templates load_prompts returns again
\* (line 108).  The first step that raises ends the request.
PrepareRequest(a, tgs, cache, file) ==
    LET time == ResolveTime(a.current_time_iso, a.timezone_str)
        loaded == load_prompts(cache, file)
        again == load_prompts(loaded.cache, file)
    IN IF ~time.ok THEN PrepareFailed(time.error, cache)
       ELSE IF ~loaded.ok THEN PrepareFailed(loaded.error, loaded.cache)
       ELSE [ok |-> TRUE, error |-> NoError, cache |-> again.cache,
             templates |-> again.cache,
             prompts |-> get_prompts_with_variables(
                             again.cache,
                             Variables(a.transcript, time.timezone, tgs,
                                       loaded.cache))]

\* The arguments of a request.
Args(transcript, current_time_iso, timezone_str) ==
    [transcript |-> transcript, current_time_iso |-> current_time_iso,
     timezone_str |-> timezone_str]

\* Timestamps: UTC, a negative offset with minutes, naive, an offset whose
\* label no zone can hold, and one that is not ISO 8601.
SomeTimestamps ==
    {Timestamp("T", <<"Z">>), Timestamp("T", OffsetSuffix("-", 3, 30)),
     Timestamp("T", <<>>), Timestamp("T", OffsetSuffix("-", 23, 30)),
     Timestamp("X", <<>>)}

\* Timezone arguments: none, a zone name, an offset, an unknown name.
SomeTimezones ==
    {NoTimezone, Timezone(<<"Asia/Shanghai">>), Timezone(OffsetSuffix("+", 8, 0)),
     Timezone(<<"Mars/Phobos">>)}

\* A template document with the three sections, one that differs from it,
\* and one without the User Prompt header.
GoodDoc ==
    JoinLines(<<<<SystemHeader>>, <<"a", "{tags_section}">>,
                <<UserHeader>>, <<"{transcript}", "{tags_user_section}">>,
                <<TagsHeader>>, <<"tags: ", "{tags_list}">>>>)
OtherDoc ==
    JoinLines(<<<<SystemHeader>>, <<"b">>, <<UserHeader>>, <<"{transcript}">>>>)
BadDoc == JoinLines(<<<<SystemHeader>>, <<"a">>>>)

File(content) == [exists |-> TRUE, content |-> content]

\* --------------------------------------------------- extract_events_with_llm

max_retries == 1

\* "marker in str(e)": the phrase occurs in the message.
HasMarker(e) == \E i \in 1..Len(e.msg) : e.msg[i] = JsonParseMarker

\* Retryable looking for the decoder's own exception class.
Retryable_decode_class_only(e) == e.cls = "JSONDecodeError" /\ HasMarker(e)

\* Retryable without the look at the message.
Retryable_any_value_error(e) == e.cls \in ValueErrorClasses

\* Lines 173-186: whether the except clause lets the loop go on.
Retryable(e) == e.cls \in ValueErrorClasses /\ HasMarker(e)

Init ==
    /\ pc = "start"
    /\ tags \in TagLists
    /\ token \in BOOLEAN
    /\ args \in {Args(<<"hi">>, t, z) : t \in SomeTimestamps, z \in SomeTimezones}
    /\ prompts = NoRendered
    /\ cached_prompts = NoPrompts
    /\ prompts_file \in {NoFile, File(BadDoc), File(GoodDoc)}
    /\ reqs = <<>>
    /\ attempt = 0
    /\ requests = 0
    /\ response = NoResponse
    /\ last_error = NoError
    /\ events_data = <<>>
    /\ events = <<>>
    /\ raised = NoError
    /\ outcomes = <<>>
    /\ FnIdle

\* Lines 125-163: everything before the retry loop, in one step (no await).
\* An error raised here is outside the try of the loop and reaches the
\* caller.  Once the prompts are rendered the arguments are not read again.
Prepare ==
    /\ pc = "start"
    /\ LET r == PrepareRequest(args, tags, cached_prompts, prompts_file)
       IN /\ cached_prompts' = r.cache
          /\ prompts' = r.prompts
          /\ pc' = IF r.ok THEN "prepared" ELSE "failed"
          /\ args' = IF r.ok THEN NoArgs ELSE args
          /\ raised' = IF r.ok THEN raised ELSE r.error
    /\ UNCHANGED <<tags, token, attempt, requests, response, last_error,
                   events_data, events, outcomes, prompts_file, reqs, fnVars>>

\* Lines 165-169: the retry loop is entered.
EnterLoop ==
    /\ pc = "prepared"
    /\ pc' = "call"
    /\ attempt' = 0
    /\ last_error' = NoError
    /\ UNCHANGED <<tags, token, requests, response, events_data, events, raised,
                   outcomes, prepVars, fnVars>>

\* HandleError keeping the first failure and raising it when the retry fails.
HandleError_raise_first(e) ==
    /\ outcomes' = Append(outcomes, e.kind)
    /\ IF Retryable(e)
       THEN IF attempt < max_retries
            THEN /\ last_error' = e
                 /\ attempt' = attempt + 1
                 /\ pc' = "call"
                 /\ raised' = raised
            ELSE /\ last_error' = last_error
                 /\ attempt' = attempt
                 /\ pc' = "failed"
                 /\ raised' = last_error
       ELSE /\ last_error' = last_error
            /\ attempt' = attempt
            /\ pc' = "failed"
            /\ raised' = e

\* Lines 173-190 for an error e of the current attempt.
HandleError(e) ==
    /\ outcomes' = Append(outcomes, e.kind)
    /\ IF Retryable(e)
       THEN /\ last_error' = e
            /\ IF attempt < max_retries
               THEN /\ attempt' = attempt + 1
                    /\ pc' = "call"
                    /\ raised' = raised
               ELSE /\ attempt' = attempt
                    /\ pc' = "failed"
                    /\ raised' = e
       ELSE /\ last_error' = last_error
            /\ attempt' = attempt
            /\ pc' = "failed"
            /\ raised' = e

\* Lines 44-64: the credential is read and the request is sent.
SendRequest ==
    /\ pc = "call"
    /\ IF token
       THEN /\ requests' = requests + 1
            /\ response' = NoResponse
            /\ pc' = "awaiting"
            /\ UNCHANGED <<attempt, last_error, raised, outcomes>>
       ELSE /\ HandleError([MissingToken EXCEPT !.attempt = attempt])
            /\ UNCHANGED <<requests, response>>
    /\ UNCHANGED <<tags, token, events_data, events, prepVars, fnVars>>

\* The endpoint answers.
LLMReply ==
    /\ pc = "awaiting"
    /\ \E r \in Responses : response' = r
    /\ pc' = "replied"
    /\ UNCHANGED <<tags, token, attempt, requests, last_error, events_data,
                   events, raised, outcomes, prepVars, fnVars>>

\* Lines 66-100 and 172-217: the reply is processed; on success the loop is
\* left and the records are mapped to events.
HandleReply ==
    /\ pc = "replied"
    /\ LET res == ProcessResponse(response)
       IN IF res.raised
          THEN /\ HandleError([res.error EXCEPT !.attempt = attempt])
               /\ UNCHANGED <<events_data, events>>
          ELSE LET m == MapRecords(res.events_data, tags, <<>>)
               IN /\ events' = m.events
                  /\ events_data' = MutatedData(res.events_data, tags)
                  /\ outcomes' = Append(outcomes, "ok")
                  /\ pc' = IF m.raised THEN "failed" ELSE "done"
                  /\ raised' = IF m.raised THEN m.error ELSE raised
                  /\ UNCHANGED <<attempt, last_error>>
    /\ UNCHANGED <<tags, token, requests, response, prepVars, fnVars>>

Next == Prepare \/ EnterLoop \/ SendRequest \/ LLMReply \/ HandleReply

Spec == Init /\ [][Next]_vars

\* ------------------------------------------------------------ properties

\* The reply held in response has been handled by the extraction.
Processed == response # NoResponse /\ pc \in {"call", "done", "failed"}

\* A reply that reaches the sanitizer: 2xx, a JSON body, a first choice that
\* was not cut off and carries text.
NormalReply(r) ==
    /\ r.net = "ok" /\ r.body = "json" /\ r.choices = "present"
    /\ r.finish_reason # "length" /\ r.message = "text" /\ r.content # <<>>

LastOutcome == outcomes[Len(outcomes)]

\* The records the reply decodes to once sanitized.
Decoded(r) == json_loads(clean_json_content(r.content)).items

\* What section 4.6 asks of a raw record for an Event to be built from it.
Constructs(d) ==
    /\ d.kind = "dict"
    /\ d.title.type = "str" /\ d.start_time.type = "str" /\ d.end_time.type = "str"
    /\ d.description.type \in {"absent", "null", "str"}

\* The tag section 4.6 gives the Event: the record's tag when it is a
\* non-empty string of the allowed list, else null.
ExpectedTag(d, tgs) ==
    IF /\ tgs.given
       /\ d.tag.type = "str" /\ d.tag.v # ""
       /\ \E i \in 1..Len(tgs.list) : tgs.list[i] = d.tag.v
    THEN d.tag ELSE Null

ExpectedEvent(d, tgs) ==
    [title |-> d.title, start_time |-> d.start_time, end_time |-> d.end_time,
     description |-> IF d.description.type = "str" THEN d.description ELSE Null,
     tag |-> ExpectedTag(d, tgs)]

ExpectedEvents(data, tgs) ==
    LET kept == SelectSeq(data, Constructs)
    IN [i \in 1..Len(kept) |-> ExpectedEvent(kept[i], tgs)]

\* C1 (as claimed): at most two model requests are sent, a second one only
\* when the first attempt ended in a JSON-decode failure; a first attempt
\* that ended in any other failure ends the extraction without a second
\* request.
C1_RetryOnlyAfterJsonDecode ==
    /\ requests <= 2
    /\ requests = 2 => outcomes[1] = "JsonDecode"
    /\ (Len(outcomes) >= 1 /\ outcomes[1] \notin {"ok", "JsonDecode"})
          => (pc = "failed" /\ requests <= 1)

\* C2: a first attempt that fails to decode is followed by one retry, and
\* when the retry's content is a valid JSON array the extraction succeeds
\* after two requests with the events of the retry's records.
C2_RetrySucceedsWithSecondReply ==
    /\ (Len(outcomes) = 1 /\ outcomes[1] = "JsonDecode")
          => /\ pc \in {"call", "awaiting", "replied"}
             /\ attempt = 1 /\ raised = NoError /\ events = <<>>
    /\ (/\ Len(outcomes) = 2 /\ outcomes[1] = "JsonDecode"
        /\ NormalReply(response)
        /\ json_loads(response.content).ok
        /\ json_loads(response.content).val.kind = "list")
          => /\ pc = "done" /\ requests = 2 /\ raised = NoError
             /\ events = ExpectedEvents(json_loads(response.content).items, tags)

C2_Witness ==
    /\ pc = "done" /\ outcomes = <<"JsonDecode", "ok">> /\ requests = 2
    /\ response.content = <<"[", "r1", ",", "r2", "]">>
    /\ Len(events) = 2

\* C3: a reply whose finish_reason is "length" ends the extraction on that
\* attempt with the truncation error: nothing is decoded from its content
\* and no further request is sent.
C3_TruncatedNeverRetried ==
    (/\ Processed
     /\ response.net = "ok" /\ response.body = "json"
     /\ response.choices = "present" /\ response.finish_reason = "length")
       => /\ pc = "failed"
          /\ raised.kind = "Truncated" /\ raised.attempt = attempt
          /\ LastOutcome = "Truncated"
          /\ requests = attempt + 1
          /\ events = <<>> /\ events_data = <<>>

C3_Witness ==
    /\ pc = "failed" /\ raised.kind = "Truncated" /\ requests = 1
    /\ response.message = "text"
    /\ ~json_loads(clean_json_content(response.content)).ok

\* C4 (as claimed): a reply that is valid JSON with a top-level value other
\* than an array ends the attempt in a JSON-decode failure, the retryable
\* class, and yields no events.
C4_NonArrayIsJsonDecodeFailure ==
    (/\ Processed /\ NormalReply(response)
     /\ json_loads(response.content).ok
     /\ json_loads(response.content).val.kind # "list")
       => (LastOutcome = "JsonDecode" /\ events = <<>>)

\* C4 (amended): a reply whose sanitized text is valid JSON with a top-level
\* value other than an array ends the attempt in the not-an-array error,
\* which is not retried: the extraction fails on that attempt, with no
\* events and no further request.
C4_SanitizedNonArrayNotRetried ==
    (/\ Processed /\ NormalReply(response)
     /\ json_loads(clean_json_content(response.content)).ok
     /\ json_loads(clean_json_content(response.content)).val.kind # "list")
       => /\ pc = "failed"
          /\ raised.kind = "NotArray" /\ raised.attempt = attempt
          /\ ~HasMarker(raised)
          /\ requests = attempt + 1
          /\ events = <<>>

C4_Witness ==
    /\ pc = "failed" /\ raised.kind = "NotArray" /\ requests = 1
    /\ json_loads(response.content).ok
    /\ json_loads(response.content).val.kind = "dict"

\* C5 (as claimed): when both attempts end in a JSON-decode failure the
\* error raised is the decode error of the first attempt, and two requests
\* were sent.
C5_FirstDecodeErrorRaised ==
    outcomes = <<"JsonDecode", "JsonDecode">>
       => (raised.kind = "JsonDecode" /\ raised.attempt = 0 /\ requests = 2)

\* C5 (amended): when both attempts end in a JSON-decode failure the error
\* raised is the decode error of the retry, the same error kind as the first
\* attempt's, and two requests were sent.
C5_LastDecodeErrorRaised ==
    outcomes = <<"JsonDecode", "JsonDecode">>
       => /\ pc = "failed"
          /\ raised.kind = "JsonDecode" /\ raised.attempt = 1
          /\ raised = last_error
          /\ requests = 2

C5_Witness ==
    /\ outcomes = <<"JsonDecode", "JsonDecode">> /\ pc = "failed"
    /\ response.content = <<"w">>

\* A transport failure: no connection, a non-2xx status, or an envelope
\* with missing or empty choices.
TransportFailure(r) ==
    \/ r.net \in {"connect_error", "http_error"}
    \/ r.net = "ok" /\ r.body = "json" /\ r.choices \in {"missing", "empty"}

\* C6 (as claimed): a transport failure, whatever text the body carries,
\* ends the extraction on that attempt with an error that is not the
\* JSON-decode failure.
C6_TransportFailureNeverRetried ==
    (Processed /\ TransportFailure(response))
       => /\ pc = "failed"
          /\ raised.kind \in {"Transport", "HttpStatus", "MissingChoices"}
          /\ raised.attempt = attempt
          /\ requests = attempt + 1

\* C7: every Event returned has a tag that is null or a member of
\* allowed_tags; with allowed_tags absent or empty every tag is null.
C7_TagNullOrAllowed ==
    pc = "done" =>
        \A i \in 1..Len(events) :
            /\ \/ events[i].tag = Null
               \/ /\ tags.given /\ events[i].tag.type = "str"
                  /\ \E j \in 1..Len(tags.list) : tags.list[j] = events[i].tag.v
            /\ (~tags.given \/ tags.list = <<>>) => events[i].tag = Null

C7_Witness ==
    /\ pc = "done" /\ tags = TagList(<<>>)
    /\ response.content = <<"[", "r1", ",", "r2", "]">>
    /\ Len(events) = 2

\* C8 (as claimed): with a non-empty allowed_tags, a record that constructs
\* and whose tag is a string of allowed_tags, the empty string included,
\* yields an Event that keeps exactly that tag.
C8_ListedTagKept ==
    (pc = "done" /\ tags.given /\ tags.list # <<>>) =>
        \A i \in 1..Len(Decoded(response)) :
            LET d == Decoded(response)[i]
            IN (/\ Constructs(d) /\ d.tag.type = "str"
                /\ \E j \in 1..Len(tags.list) : tags.list[j] = d.tag.v)
                  => \E k \in 1..Len(events) :
                        events[k].title = d.title /\ events[k].tag = d.tag

\* Construction as C9 words it: title, start_time and end_time present and
\* of string type.
ThreeFieldsValid(d) ==
    /\ d.kind = "dict"
    /\ d.title.type = "str" /\ d.start_time.type = "str" /\ d.end_time.type = "str"

\* C9 (as claimed): the Events are exactly the records whose title,
\* start_time and end_time are strings, in the reply's order.
C9_ThreeFieldSubsequence ==
    pc = "done" =>
        LET kept == SelectSeq(Decoded(response), ThreeFieldsValid)
        IN events = [i \in 1..Len(kept) |-> ExpectedEvent(kept[i], tags)]

\* C9 (amended): the Events are exactly the records whose title, start_time
\* and end_time are strings and whose description is missing, null or a
\* string, in the reply's order; so there are at most as many Events as
\* records.
C9_ConstructibleSubsequence ==
    pc = "done" =>
        /\ events = ExpectedEvents(Decoded(response), tags)
        /\ Len(events) <= Len(Decoded(response))

C9_Witness ==
    /\ pc = "done"
    /\ response.content = <<"[", "r2", ",", "r4", ",", "r1", "]">>
    /\ Len(events) = 2
    /\ events[1].title = Str("b") /\ events[2].title = Str("a")

\* C10: once the reply has decoded to an array the extraction returns: no
\* record makes it raise, and when no record constructs the result is the
\* empty list.
C10_MalformedRecordsNeverRaise ==
    (/\ Processed /\ NormalReply(response)
     /\ json_loads(clean_json_content(response.content)).ok
     /\ json_loads(clean_json_content(response.content)).val.kind = "list")
       => /\ pc = "done" /\ raised = NoError /\ LastOutcome = "ok"
          /\ (\A i \in 1..Len(Decoded(response)) : ~Constructs(Decoded(response)[i]))
                => events = <<>>

C10_Witness ==
    /\ pc = "done" /\ events = <<>>
    /\ response.content = <<"[", "n", ",", "r4", ",", "r6", "]">>

\* The errors of the steps before the loop.
PrepareErrors ==
    {MalformedTimestamp, UnknownTimezone, TemplateMissing, TemplateFormat}

\* The arguments or the document are such that a step before the loop must
\* fail: the timestamp is not ISO 8601, the timezone given is neither a
\* zone name nor a sign followed by digits, or the document to be loaded
\* lacks a required header.
MalformedInput ==
    \/ Head(args.current_time_iso) # "T"
    \/ /\ args.timezone_str.given
       /\ args.timezone_str.text \notin ZoneNames
       /\ Head(args.timezone_str.text) \notin {"+", "-"}
    \/ /\ ~cached_prompts.loaded
       /\ prompts_file.exists
       /\ \E h \in {SystemHeader, UserHeader} :
              Occurrences(prompts_file.content, h) = 0

C15_RequestOnlyAfterPreparation ==
    requests > 0 =>
        /\ args = NoArgs
        /\ cached_prompts.loaded
        /\ prompts # NoRendered

C15_PreparationFailureIsFinal ==
    (pc = "failed" /\ raised \in PrepareErrors) =>
        requests = 0 /\ attempt = 0 /\ outcomes = <<>> /\ prompts = NoRendered

C15_MalformedInputFails ==
    (pc = "start" /\ MalformedInput) =>
        /\ pc' = "failed"
        /\ raised' \in PrepareErrors
        /\ requests' = 0

C15_FailedIsTerminal == pc = "failed" => UNCHANGED vars

\* C15: the steps are strictly sequential.  A model request is sent only
\* after the time was resolved, the templates loaded and the prompts
\* rendered; a malformed timestamp, an unrecognized timezone or a template
\* format error ends the request in error with no model request sent, and
\* nothing is tried again.
C15_PreparationPrecedesRequests ==
    /\ [](C15_RequestOnlyAfterPreparation /\ C15_PreparationFailureIsFinal)
    /\ [][C15_MalformedInputFails /\ C15_FailedIsTerminal]_vars

C15_Witness ==
    /\ pc = "failed"
    /\ raised = UnknownTimezone
    /\ args.timezone_str = Timezone(<<"Mars/Phobos">>)
    /\ prompts_file = File(GoodDoc)
    /\ requests = 0

\* ------------------------------------- several requests, one template cache

MaxRequests == 2

\* A request before line 125, and after the steps before the loop: failed,
\* or awaiting the model with the templates load_prompts gave it and the
\* prompts rendered from them.
NewRequest ==
    [pc |-> "new", error |-> NoError, templates |-> NoPrompts,
     prompts |-> NoRendered]

Files == {NoFile, File(BadDoc), File(GoodDoc), File(OtherDoc)}

InitCache ==
    /\ RequestIdle
    /\ FnIdle
    /\ cached_prompts = NoPrompts
    /\ prompts_file \in Files
    /\ reqs = [i \in 1..MaxRequests |-> NewRequest]

\* Lines 125-163 of request i.  The event loop runs them without a break:
\* there is no await before line 171.
RequestPrepare(i) ==
    /\ reqs[i].pc = "new"
    /\ \E t \in {Timestamp("T", <<"Z">>), Timestamp("X", <<>>)},
          tgs \in {NoTags, TagList(<<"work">>)} :
          LET r == PrepareRequest(Args(<<"hi">>, t, NoTimezone), tgs,
                                  cached_prompts, prompts_file)
          IN /\ cached_prompts' = r.cache
             /\ reqs' = [reqs EXCEPT ![i] =
                    [pc |-> IF r.ok THEN "awaiting" ELSE "failed",
                     error |-> r.error, templates |-> r.templates,
                     prompts |-> r.prompts]]
    /\ UNCHANGED <<prompts_file, requestVars, fnVars>>

\* Lines 165-217 of request i: the exchanges with the model and the
\* mapping, which read neither the cache nor the document.
RequestFinish(i) ==
    /\ reqs[i].pc = "awaiting"
    /\ reqs' = [reqs EXCEPT ![i].pc = "done"]
    /\ UNCHANGED <<cached_prompts, prompts_file, requestVars, fnVars>>

\* The document is replaced, removed or created while the process runs.
FileChange ==
    /\ \E f \in Files \ {prompts_file} : prompts_file' = f
    /\ UNCHANGED <<cached_prompts, reqs, requestVars, fnVars>>

NextCache ==
    \/ \E i \in 1..MaxRequests : RequestPrepare(i)
    \/ \E i \in 1..MaxRequests : RequestFinish(i)
    \/ FileChange

SpecCache == InitCache /\ [][NextCache]_vars

Rendered(i) == reqs[i].pc \in {"awaiting", "done"}

\* Every request that rendered did so from the templates in the cache.
C16_SameTemplatesForAll ==
    \A i \in 1..MaxRequests :
        Rendered(i) => cached_prompts.loaded /\ reqs[i].templates = cached_prompts

\* The cache changes only from unset to set, and not in a step in which a
\* request fails.
C16_SetOnce ==
    /\ cached_prompts.loaded => cached_prompts' = cached_prompts
    /\ cached_prompts' # cached_prompts => cached_prompts'.loaded
    /\ \A i \in 1..MaxRequests :
           (reqs[i].pc = "new" /\ reqs'[i].pc = "failed") =>
               cached_prompts' = cached_prompts

\* C16: in any interleaving of requests the template cache goes from unset
\* to set at most once and never changes afterwards; a failed load leaves
\* it unset; rendering does not change it; and every request that renders
\* after the first successful load uses the same templates.
C16_CacheSetOnceAndShared ==
    [](C16_SameTemplatesForAll) /\ [][C16_SetOnce]_vars

C16_Witness ==
    /\ \A i \in 1..MaxRequests : Rendered(i)
    /\ cached_prompts = ParsePrompts(GoodDoc)
    /\ prompts_file = File(OtherDoc)
    /\ reqs[1].prompts # reqs[2].prompts

====
